---- MODULE Spec2Model ----
(***************************************************************************)
(* PosteriorSampling.py: one call of EmpiricalPosteriorSampling, with the  *)
(* calls it makes to compute_default_tol and sample_ecdf.                  *)
(*                                                                         *)
(* Arrays are sequences (a matrix is a sequence of rows), indexed from 1;  *)
(* the loop counters i keep the source's 0-based values, so row/column i   *)
(* of the source is element i+1 here.  Data values are integers.  A        *)
(* tolerance is held as an integer count of 1/TolDen, so that the default  *)
(* tolerance rangefraction*(pmax-pmin), rangefraction = 1/20, is exact.    *)
(*                                                                         *)
(* np.random is the process-wide generator: a state, read and advanced by  *)
(* every np.random.choice call.  It is a counter modulo RngModulus here;   *)
(* the seed is its state when the call starts.                             *)
(***************************************************************************)
EXTENDS Integers, Sequences, FiniteSets

VARIABLES
    p_pred_obs,        \* argument: [QxP] observed predictions
    p_pred_test,       \* argument: [NxP] test-set predictions
    p_true_test,       \* argument: [NxP] test-set true values
    WsArg,             \* argument Ws: None or Given(a sequence of tolerances)
    Ws,                \* the local Ws after line 83
    postsamples,       \* the output matrix of EmpiricalPosteriorSampling
    i,                 \* loop counter of EmpiricalPosteriorSampling (line 86)
    ecdf_i,            \* loop counter of sample_ecdf (line 21)
    ecdf_postsamples,  \* the local postsamples of sample_ecdf
    rng,               \* state of the np.random global generator
    stdout,            \* what print has written, in order
    pc,                \* "call", "loop", "ecdf", "returned", "raised"
    err,               \* the exception raised, "none" if none
    seed,              \* history: the generator's state at the call
    draws,             \* history: the cell <<i, ecdf_i>> served by each np.random.choice call
    assignedBy         \* history: per output cell, the columns whose sample_ecdf result was stored there

vars == <<p_pred_obs, p_pred_test, p_true_test, WsArg, Ws, postsamples, i, ecdf_i,
          ecdf_postsamples, rng, stdout, pc, err, seed, draws, assignedBy>>

inputs == <<p_pred_obs, p_pred_test, p_true_test, WsArg>>

----------------------------------------------------------------------------
(* Bounds of the model *)

MaxQ == 2          \* observed realizations
MaxP == 2          \* parameters (columns)
MaxN == 2          \* test-set realizations
MaxObs == 1        \* the first observed value of a column ranges over 0..MaxObs
MaxTol == 1        \* caller-supplied tolerances range over 0..MaxTol (whole units)
RngModulus == 3    \* number of states of the generator

(* rangefraction = 1/20: tolerances are counted in 1/TolDen *)
TolDen == 20

(* the optional argument Ws: None, or Given(ws) *)
None == <<>>
Given(ws) == <<ws>>

----------------------------------------------------------------------------
(* numpy helpers *)

NRows(M) == Len(M)
NCols(M) == Len(M[1])
Column(M, p) == [n \in 1..Len(M) |-> M[n][p]]

zeros(n) == [k \in 1..n |-> 0]
zeros2(n, m) == [k \in 1..n |-> [l \in 1..m |-> 0]]

SeqMax(s) == CHOOSE x \in {s[k] : k \in 1..Len(s)} : \A k \in 1..Len(s) : s[k] <= x
SeqMin(s) == CHOOSE x \in {s[k] : k \in 1..Len(s)} : \A k \in 1..Len(s) : x <= s[k]

(* np.random.choice(n, 1): an index in 0..n-1 that is a function of the generator
   state alone, and the state the call leaves behind.  Every index of 0..n-1 is
   drawn from some seed as long as n <= RngModulus, and consecutive draws may
   repeat or differ (the counter wraps). *)
choice(r, n) == r % n
(* mutants: a generator that a draw leaves where it was; a generator that a draw
   over a single index does not advance *)
rk_advance_stuck(r, n) == r
rk_advance_lazy(r, n) == IF n = 1 THEN r ELSE (r + 1) % RngModulus
rk_advance(r, n) == (r + 1) % RngModulus

----------------------------------------------------------------------------
(* compute_default_tol *)

(* mutant: the tolerance clamped to a minimum of 1/TolDen *)
compute_default_tol_clamped(pred) ==
    [p \in 1..NCols(pred) |->
        IF SeqMax(Column(pred, p)) = SeqMin(Column(pred, p)) THEN 1
        ELSE SeqMax(Column(pred, p)) - SeqMin(Column(pred, p))]

compute_default_tol(pred) ==
    [p \in 1..NCols(pred) |-> SeqMax(Column(pred, p)) - SeqMin(Column(pred, p))]

----------------------------------------------------------------------------
(* sample_ecdf, one observed realization *)

(* line 22: p_pred_test >= v-W and p_pred_test <= v+W, W in 1/TolDen *)
InWindow(x, v, W) == TolDen * x >= TolDen * v - W /\ TolDen * x <= TolDen * v + W

RECURSIVE WhereFrom(_, _, _, _)
WhereFrom(n, v, pred, W) ==
    IF n > Len(pred) THEN <<>>
    ELSE (IF InWindow(pred[n], v, W) THEN <<n>> ELSE <<>>) \o WhereFrom(n + 1, v, pred, W)

(* mutant: the window taken twice as wide *)
INDS_wide(v, pred, W) == WhereFrom(1, v, pred, 2 * W)

(* line 22: np.where(...), the matching indices in ascending order *)
INDS(v, pred, W) == WhereFrom(1, v, pred, W)

(* line 23: p_true_test[INDS] raises IndexError when an index is out of bounds *)
IndexInBounds(truth, inds) == \A k \in 1..Len(inds) : inds[k] <= Len(truth)
csamples(truth, inds) == [k \in 1..Len(inds) |-> truth[inds[k]]]

(* line 25: csamples.shape[0] is 0 (CPython: the small int 0 is one object) *)
NoSamples(cs) == Len(cs) = 0

(* mutant: a fallback that synthesizes the midpoint of the true column *)
FallbackSample_mid(truth, r) == (SeqMin(truth) + SeqMax(truth)) \div 2

(* lines 27-28 and 30-31 *)
FallbackSample(truth, r) == truth[choice(r, Len(truth)) + 1]
MatchSample(cs, r) == cs[choice(r, Len(cs)) + 1]

(* lines 22-31: the sample for one observed value v *)
SampleOf(v, pred, truth, W, r) ==
    LET cs == csamples(truth, INDS(v, pred, W))
    IN  IF NoSamples(cs) THEN FallbackSample(truth, r) ELSE MatchSample(cs, r)

(* the size handed to np.random.choice for v *)
ChoiceSize(v, pred, truth, W) ==
    LET cs == csamples(truth, INDS(v, pred, W))
    IN  IF NoSamples(cs) THEN Len(truth) ELSE Len(cs)

(* lines 20-35 as a function of the generator state r at entry: the returned array *)
RECURSIVE EcdfFrom(_, _, _, _, _, _)
EcdfFrom(k, obs, pred, truth, W, r) ==
    IF k > Len(obs) THEN <<>>
    ELSE <<SampleOf(obs[k], pred, truth, W, r)>>
         \o EcdfFrom(k + 1, obs, pred, truth, W, rk_advance(r, ChoiceSize(obs[k], pred, truth, W)))

sample_ecdf(obs, pred, truth, W, r) == EcdfFrom(1, obs, pred, truth, W, r)

(* mutants: the index printed counted from 1 *)
ProgressLine_onebased(k) == <<"Sampling parameter", k + 1>>
NoticeLine_onebased(k) == <<"Data realization", k + 1, "No test set samples available">>

(* the lines print writes *)
ProgressLine(k) == <<"Sampling parameter", k>>
NoticeLine(k) == <<"Data realization", k, "No test set samples available">>

(* mutant: every result stored in the first column *)
SetColumn_first(M, p, col) == [q \in 1..Len(M) |-> [M[q] EXCEPT ![1] = col[q]]]

(* line 88: postsamples[:,i] = col *)
SetColumn(M, p, col) == [q \in 1..Len(M) |-> [M[q] EXCEPT ![p] = col[q]]]

----------------------------------------------------------------------------
(* The arguments of the call *)

Kinds == {"up", "down", "const"}

(* a test-set prediction column of N values: 1, 2, .., N, or N, .., 2, 1, or constant *)
PredValue(kind, n, N) ==
    IF kind = "up" THEN n ELSE IF kind = "down" THEN N + 1 - n ELSE 1

(* test-set true values: 10, 20, .. in the first column, distinct in every cell *)
TruthValue(n, p) == 10 * n + (p - 1)

(* the same tolerance w (whole units) for P parameters *)
UniformWs(w, P) == Given([p \in 1..P |-> TolDen * w])

(* consistent shapes: every column has its own kind of test-set predictions; the
   observed realizations of a column are a, a+1, .., the first column starting at
   first and each next column one higher, wrapping after MaxObs *)
ConsistentArgs ==
    \E Q \in 1..MaxQ, P \in 1..MaxP, N \in 1..MaxN :
    \E kinds \in [1..P -> Kinds], first \in 0..MaxObs :
    \E ws \in {None} \cup {UniformWs(w, P) : w \in 0..MaxTol} :
        /\ p_pred_obs = [q \in 1..Q |-> [p \in 1..P |-> ((first + p - 1) % (MaxObs + 1)) + (q - 1)]]
        /\ p_pred_test = [n \in 1..N |-> [p \in 1..P |-> PredValue(kinds[p], n, N)]]
        /\ p_true_test = [n \in 1..N |-> [p \in 1..P |-> TruthValue(n, p)]]
        /\ WsArg = ws

(* any shapes: the three matrices and Ws each with its own size *)
AnyShapeArgs ==
    \E Q \in 1..MaxQ, Po \in 1..MaxP, Pt \in 1..MaxP, Pr \in 1..MaxP :
    \E N1 \in 1..MaxN, N2 \in 1..MaxN, Pw \in 0..MaxP :
        /\ p_pred_obs = [q \in 1..Q |-> [p \in 1..Po |-> q]]
        /\ p_pred_test = [n \in 1..N1 |-> [p \in 1..Pt |-> n]]
        /\ p_true_test = [n \in 1..N2 |-> [p \in 1..Pr |-> TruthValue(n, p)]]
        /\ WsArg = IF Pw = 0 THEN None ELSE UniformWs(1, Pw)

(* the two end-to-end examples: columns 1..5 and 10..50, tolerance 0.5,
   observed prediction 3 or 100 *)
ExampleArgs ==
    \E v \in {3, 100} :
        /\ p_pred_obs = << <<v>> >>
        /\ p_pred_test = << <<1>>, <<2>>, <<3>>, <<4>>, <<5>> >>
        /\ p_true_test = << <<10>>, <<20>>, <<30>>, <<40>>, <<50>> >>
        /\ WsArg = Given(<<10>>)

Init ==
    /\ (ConsistentArgs \/ AnyShapeArgs \/ ExampleArgs)
    /\ rng \in 0..(RngModulus - 1)
    /\ seed = rng
    /\ Ws = <<>>
    /\ postsamples = <<>>
    /\ i = 0
    /\ ecdf_i = 0
    /\ ecdf_postsamples = <<>>
    /\ stdout = <<>>
    /\ pc = "call"
    /\ err = "none"
    /\ draws = <<>>
    /\ assignedBy = <<>>

----------------------------------------------------------------------------
(* EmpiricalPosteriorSampling *)

(* lines 82-85 *)
Enter ==
    /\ pc = "call"
    /\ Ws' = IF WsArg = None THEN compute_default_tol(p_pred_test) ELSE WsArg[1]
    /\ postsamples' = zeros2(NRows(p_pred_obs), NCols(p_pred_obs))
    /\ assignedBy' = [q \in 1..NRows(p_pred_obs) |-> [p \in 1..NCols(p_pred_obs) |-> <<>>]]
    /\ i' = 0
    /\ pc' = "loop"
    /\ UNCHANGED <<inputs, ecdf_i, ecdf_postsamples, rng, stdout, err, seed, draws>>

(* line 88: the column slices [:,i] exist in all three matrices *)
SlicesExist ==
    /\ i + 1 <= NCols(p_pred_obs)
    /\ i + 1 <= NCols(p_pred_test)
    /\ i + 1 <= NCols(p_true_test)

(* lines 86-88: next parameter; print, slice the columns, enter sample_ecdf (line 20) *)
BeginColumn ==
    /\ pc = "loop"
    /\ i < Len(Ws)
    /\ SlicesExist
    /\ stdout' = Append(stdout, ProgressLine(i))
    /\ ecdf_postsamples' = zeros(NRows(p_pred_obs))
    /\ ecdf_i' = 0
    /\ pc' = "ecdf"
    /\ UNCHANGED <<inputs, Ws, postsamples, i, rng, err, seed, draws, assignedBy>>

(* lines 86-88: next parameter; print, then a slice [:,i] raises IndexError *)
SliceIndexError ==
    /\ pc = "loop"
    /\ i < Len(Ws)
    /\ ~SlicesExist
    /\ stdout' = Append(stdout, ProgressLine(i))
    /\ pc' = "raised"
    /\ err' = "IndexError"
    /\ UNCHANGED <<inputs, Ws, postsamples, i, ecdf_i, ecdf_postsamples, rng, seed, draws,
                   assignedBy>>

(* lines 86, 89: the loop is over, return postsamples *)
Return ==
    /\ pc = "loop"
    /\ i = Len(Ws)
    /\ pc' = "returned"
    /\ UNCHANGED <<inputs, Ws, postsamples, i, ecdf_i, ecdf_postsamples, rng, stdout, err,
                   seed, draws, assignedBy>>

----------------------------------------------------------------------------
(* sample_ecdf on column i *)

obs_col == Column(p_pred_obs, i + 1)
pred_col == Column(p_pred_test, i + 1)
true_col == Column(p_true_test, i + 1)
W == Ws[i + 1]

InEcdfLoop == pc = "ecdf" /\ ecdf_i < Len(obs_col)
CurINDS == INDS(obs_col[ecdf_i + 1], pred_col, W)

StoreSample ==
    /\ ecdf_postsamples' = [ecdf_postsamples EXCEPT ![ecdf_i + 1] =
                               SampleOf(obs_col[ecdf_i + 1], pred_col, true_col, W, rng)]
    /\ rng' = rk_advance(rng, ChoiceSize(obs_col[ecdf_i + 1], pred_col, true_col, W))
    /\ draws' = Append(draws, <<i, ecdf_i>>)
    /\ ecdf_i' = ecdf_i + 1

(* lines 22-23: p_true_test[INDS] raises IndexError *)
GatherIndexError ==
    /\ InEcdfLoop
    /\ ~IndexInBounds(true_col, CurINDS)
    /\ pc' = "raised"
    /\ err' = "IndexError"
    /\ UNCHANGED <<inputs, Ws, postsamples, i, ecdf_i, ecdf_postsamples, rng, stdout, seed,
                   draws, assignedBy>>

(* lines 22-28, 33: no test-set prediction in the window *)
SampleFallback ==
    /\ InEcdfLoop
    /\ IndexInBounds(true_col, CurINDS)
    /\ NoSamples(csamples(true_col, CurINDS))
    /\ stdout' = Append(stdout, NoticeLine(ecdf_i))
    /\ StoreSample
    /\ UNCHANGED <<inputs, Ws, postsamples, i, pc, err, seed, assignedBy>>

(* lines 22-25, 29-33: some test-set prediction in the window *)
SampleMatch ==
    /\ InEcdfLoop
    /\ IndexInBounds(true_col, CurINDS)
    /\ ~NoSamples(csamples(true_col, CurINDS))
    /\ StoreSample
    /\ UNCHANGED <<inputs, Ws, postsamples, i, stdout, pc, err, seed, assignedBy>>

(* line 35, line 88: sample_ecdf returns and its result is stored in column i *)
EndColumn ==
    /\ pc = "ecdf"
    /\ ecdf_i = Len(obs_col)
    /\ postsamples' = SetColumn(postsamples, i + 1, ecdf_postsamples)
    /\ assignedBy' = [q \in 1..Len(assignedBy) |->
                         [assignedBy[q] EXCEPT ![i + 1] = Append(@, i)]]
    /\ i' = i + 1
    /\ pc' = "loop"
    /\ UNCHANGED <<inputs, Ws, ecdf_i, ecdf_postsamples, rng, stdout, err, seed, draws>>

Next ==
    \/ Enter
    \/ BeginColumn
    \/ SliceIndexError
    \/ Return
    \/ GatherIndexError
    \/ SampleFallback
    \/ SampleMatch
    \/ EndColumn

Spec == Init /\ [][Next]_vars

----------------------------------------------------------------------------
(* Vocabulary of the properties *)

Q == Len(p_pred_obs)
P_obs == Len(p_pred_obs[1])
P_test == Len(p_pred_test[1])
P_true == Len(p_true_test[1])
N_pred == Len(p_pred_test)
N_true == Len(p_true_test)

RowCountsDiffer == N_pred # N_true
ParamCountsDiffer == ~(P_obs = P_test /\ P_test = P_true)
ConsistentShapes ==
    /\ ~RowCountsDiffer
    /\ ~ParamCountsDiffer
    /\ (WsArg = None \/ Len(WsArg[1]) = P_obs)

Abs(x) == IF x < 0 THEN -x ELSE x

(* the candidate set of realization q (1-based) for parameter p (1-based) under a
   tolerance of w/TolDen: the test indices whose prediction is within the closed window *)
CandidatesWithin(q, p, w) ==
    {n \in 1..N_pred : TolDen * Abs(p_pred_test[n][p] - p_pred_obs[q][p]) <= w}
Candidates(q, p) == CandidatesWithin(q, p, Ws[p])

(* the cells sampled so far: those of the columns stored, and the rows done of the
   column sample_ecdf is working on *)
InStoredColumn(q, p) == pc # "call" /\ p <= i /\ q \in 1..Q
InCurrentColumn(q, p) == pc = "ecdf" /\ p = i + 1 /\ q \in 1..ecdf_i
SampledCells ==
    {c \in (1..Q) \X (1..P_obs) : InStoredColumn(c[1], c[2]) \/ InCurrentColumn(c[1], c[2])}
ValueOf(c) == IF InCurrentColumn(c[1], c[2]) THEN ecdf_postsamples[c[1]] ELSE postsamples[c[1]][c[2]]

TruthColumnValues(p) == {p_true_test[n][p] : n \in 1..N_true}

(* the state of the generator k draws after state r *)
DrawsAhead(r, k) == (r + k) % RngModulus

IsExample(v) ==
    /\ p_pred_obs = << <<v>> >>
    /\ p_pred_test = << <<1>>, <<2>>, <<3>>, <<4>>, <<5>> >>
    /\ p_true_test = << <<10>>, <<20>>, <<30>>, <<40>>, <<50>> >>
    /\ WsArg = Given(<<10>>)

----------------------------------------------------------------------------
(* C1: with consistent shapes (and tolerances omitted or of length P) the call never
   raises, can always take its next step until it has returned, and returns a matrix
   of exactly Q rows of P cells in which every cell was stored once, from the
   sample_ecdf result of its own column, and holds a true value of that column. *)
Thm_C1_ShapeAndAssignment ==
    ConsistentShapes =>
        /\ pc # "raised"
        /\ pc # "returned" => ENABLED Next
        /\ pc = "returned" =>
            /\ Len(postsamples) = Q
            /\ \A q \in 1..Q :
                /\ Len(postsamples[q]) = P_obs
                /\ \A p \in 1..P_obs :
                    /\ assignedBy[q][p] = <<p - 1>>
                    /\ postsamples[q][p] \in TruthColumnValues(p)

Wit_C1_Returned ==
    /\ pc = "returned"
    /\ ConsistentShapes
    /\ Q > 1 /\ P_obs > 1 /\ N_true > 1

(* C2: every sampled cell whose candidate set is not empty holds the true value of one
   of its candidates, whatever the generator state; in the end-to-end example
   (observed 3, tolerance 0.5) the result is 30 for every seed. *)
Thm_C2_SampleFromWindow ==
    /\ \A c \in SampledCells :
           Candidates(c[1], c[2]) # {} =>
               \E n \in Candidates(c[1], c[2]) : ValueOf(c) = p_true_test[n][c[2]]
    /\ IsExample(3) /\ pc = "returned" => postsamples = << <<30>> >>

Wit_C2_SecondOfTwoCandidates ==
    \E c \in SampledCells :
        /\ Cardinality(Candidates(c[1], c[2])) = 2
        /\ Ws[c[2]] > 0
        /\ \E n \in Candidates(c[1], c[2]) :
               /\ ValueOf(c) = p_true_test[n][c[2]]
               /\ \E m \in Candidates(c[1], c[2]) : m < n

RaisedInEcdf == pc = "raised" /\ SlicesExist

(* C3: every sampled cell whose candidate set is empty holds a value of the whole true
   column; the fallback never raises (an exception inside sample_ecdf happens only on a
   realization that has candidates); in the end-to-end example (observed 100) the
   result is the true value at the index the seed's draw over 0..4 gives. *)
Thm_C3_FallbackFromTruth ==
    /\ \A c \in SampledCells :
           Candidates(c[1], c[2]) = {} => ValueOf(c) \in TruthColumnValues(c[2])
    /\ RaisedInEcdf => Candidates(ecdf_i + 1, i + 1) # {}
    /\ IsExample(100) /\ pc = "returned" =>
           postsamples = << <<p_true_test[(seed % 5) + 1][1]>> >>

Wit_C3_FallbackSecondIndex ==
    \E c \in SampledCells :
        /\ Candidates(c[1], c[2]) = {}
        /\ N_true > 1
        /\ ValueOf(c) = p_true_test[2][c[2]]

(* C4, as claimed: when the two test-set matrices differ in row count the call ends
   by raising, with no draw consumed, nothing printed and no cell stored. *)
Orig_C4_RowMismatchRaisesFirst ==
    RowCountsDiffer /\ ~ParamCountsDiffer /\ pc \in {"returned", "raised"} =>
        /\ pc = "raised"
        /\ draws = <<>>
        /\ stdout = <<>>
        /\ \A q \in 1..Q, p \in 1..P_obs : assignedBy[q][p] = <<>>

(* C5, as claimed: when the three matrices differ in parameter count (their row counts
   agreeing) the call never returns a matrix, and when it raises no column has been
   sampled. *)
Orig_C5_ParamMismatchNoPartial ==
    ParamCountsDiffer /\ ~RowCountsDiffer =>
        /\ pc # "returned"
        /\ pc = "raised" => draws = <<>>

(* A run of EmpiricalPosteriorSampling on column p alone (same tolerance argument,
   restricted to that column), started with the generator in state r: its one
   output column. *)
SingleParameterRun(p, r) ==
    LET pred1 == [n \in 1..N_pred |-> <<p_pred_test[n][p]>>]
        ws1 == IF WsArg = None THEN compute_default_tol(pred1) ELSE <<WsArg[1][p]>>
    IN  sample_ecdf(Column(p_pred_obs, p), Column(p_pred_test, p), Column(p_true_test, p),
                    ws1[1], r)

IsRange(d, col) ==
    \E a \in 1..Len(col), b \in 1..Len(col) :
        /\ d = col[a] - col[b]
        /\ \A n \in 1..Len(col) : col[b] <= col[n] /\ col[n] <= col[a]
IsConstant(col) == \A a \in 1..Len(col), b \in 1..Len(col) : col[a] = col[b]

(* C7: when the caller omits the tolerances, the vector the call uses has one entry
   per column of the test-set predictions, each (max - min)/TolDen of its column: 0
   exactly when the column is constant, positive otherwise; and the cells are sampled
   with that tolerance. *)
Thm_C7_DefaultTolerance ==
    pc # "call" /\ WsArg = None =>
        /\ Len(Ws) = P_test
        /\ \A p \in 1..P_test :
            /\ IsRange(Ws[p], Column(p_pred_test, p))
            /\ Ws[p] = 0 <=> IsConstant(Column(p_pred_test, p))
            /\ Ws[p] > 0 <=> ~IsConstant(Column(p_pred_test, p))
        /\ \A c \in SampledCells :
               LET col == Column(p_pred_test, c[2])
                   cand == CandidatesWithin(c[1], c[2], SeqMax(col) - SeqMin(col))
               IN  cand # {} => \E n \in cand : ValueOf(c) = p_true_test[n][c[2]]

Wit_C7_ConstantAndVaryingColumn ==
    /\ pc = "returned"
    /\ WsArg = None
    /\ N_pred > 1
    /\ \E p \in 1..P_test : Ws[p] = 0
    /\ \E p \in 1..P_test : Ws[p] > 0

RECURSIVE ExpectedNotices(_, _, _)
ExpectedNotices(q, rows, p) ==
    IF q > rows THEN <<>>
    ELSE (IF Candidates(q, p) = {}
          THEN << <<"Data realization", q - 1, "No test set samples available">> >>
          ELSE <<>>)
         \o ExpectedNotices(q + 1, rows, p)

RECURSIVE ExpectedStored(_)
ExpectedStored(p) ==
    IF p = 0 THEN <<>>
    ELSE ExpectedStored(p - 1) \o <<ProgressLine(p - 1)>> \o ExpectedNotices(1, Q, p)

ExpectedStarted ==
    IF pc = "ecdf" \/ RaisedInEcdf
    THEN <<ProgressLine(i)>> \o ExpectedNotices(1, ecdf_i, i + 1)
    ELSE IF pc = "raised" THEN <<ProgressLine(i)>> ELSE <<>>

(* C8: what has been printed is, for every column started, its progress line followed
   by one notice per realization done whose window holds no test-set prediction, with
   that realization's index, in order, and nothing for the others; the array
   sample_ecdf fills keeps its length Q, and every column stored had all Q
   realizations done. *)
Thm_C8_NoticePerEmptyWindow ==
    /\ pc # "call" => stdout = ExpectedStored(i) \o ExpectedStarted
    /\ pc = "ecdf" => Len(ecdf_postsamples) = Q

Wit_C8_NoticeAndNone ==
    /\ pc = "returned"
    /\ \E p \in 1..P_obs : \E q1 \in 1..Q, q2 \in 1..Q :
          /\ p <= i
          /\ q1 < q2
          /\ Candidates(q1, p) = {}
          /\ Candidates(q2, p) # {}

EveryRealizationMatches ==
    /\ pc # "call"
    /\ ConsistentShapes
    /\ \A q \in 1..Q, p \in 1..P_obs : Candidates(q, p) # {}

(* C9, as claimed: when every observed realization has a test-set prediction in its
   window, nothing at all is printed; and no step of the call changes any of its
   four arguments. *)
Orig_C9_NoOutputWhenAllMatch ==
    /\ [](EveryRealizationMatches => stdout = <<>>)
    /\ [][inputs' = inputs]_vars

ColumnsStarted == IF pc = "ecdf" THEN i + 1 ELSE i

(* C9, amended: when every observed realization has a test-set prediction in its
   window, what is printed is exactly one progress line "Sampling parameter p" per
   parameter started, in order, and nothing else; and no step of the call changes
   any of its four arguments. *)
Thm_C9_OnlyProgressLines ==
    /\ [](EveryRealizationMatches =>
            stdout = [k \in 1..ColumnsStarted |-> <<"Sampling parameter", k - 1>>])
    /\ [][inputs' = inputs]_vars

Wit_C9_AllMatchReturned ==
    /\ pc = "returned"
    /\ EveryRealizationMatches
    /\ P_obs > 1 /\ Q > 1

CellsDone == IF pc = "ecdf" \/ RaisedInEcdf THEN i * Q + ecdf_i ELSE i * Q

(* C10: every np.random.choice call serves one cell, the cells being served column by
   column and row by row within a column, so the k-th draw (from 0) serves cell
   (k mod Q, k div Q); each draw advances the generator once, on both branches; a
   call with consistent shapes returns after exactly Q*P draws. *)
Thm_C10_OneDrawPerCell ==
    /\ Len(draws) = CellsDone
    /\ \A k \in 1..Len(draws) : draws[k] = <<(k - 1) \div Q, (k - 1) % Q>>
    /\ rng = DrawsAhead(seed, Len(draws))
    /\ pc = "returned" /\ ConsistentShapes => Len(draws) = Q * P_obs

Wit_C10_AllCellsDrawn ==
    /\ pc = "returned"
    /\ ConsistentShapes
    /\ Q > 1 /\ P_obs > 1
    /\ Len(draws) = Q * P_obs
    /\ \E p \in 1..P_obs, q \in 1..Q : Candidates(q, p) = {}
    /\ \E p \in 1..P_obs, q \in 1..Q : Candidates(q, p) # {}

====
